---- MODULE Spec2Model ----
(***************************************************************************)
(* Model of app.py: PDF ingestion from saved links, keyword retrieval,    *)
(* prompt context assembly and the streaming bridge of /ask, plus the     *)
(* session check of the /admin endpoints.                                  *)
(*                                                                         *)
(* Strings whose characters matter (page texts, corpus texts, queries,    *)
(* URLs) are tuples of one-character strings.                              *)
(***************************************************************************)
EXTENDS Integers, Sequences, FiniteSets, TLC

(***************************************************************************)
(* Python str helpers used by the code                                     *)
(***************************************************************************)

\* str.lower() on one character (the letters the model's texts use)
LowerChar(c) ==
    CASE c = "A" -> "a"
      [] c = "B" -> "b"
      [] c = "E" -> "e"
      [] c = "F" -> "f"
      [] c = "V" -> "v"
      [] c = "P" -> "p"
      [] OTHER -> c

\* str.lower()
Lower(s) == [i \in 1..Len(s) |-> LowerChar(s[i])]

\* s[i:] starts with d   (i is 1-based)
StartsAt(s, d, i) ==
    /\ i + Len(d) - 1 <= Len(s)
    /\ \A k \in 1..Len(d) : s[i + k - 1] = d[k]

\* `d in s`
Contains(s, d) == \E i \in 1..(Len(s) + 1) : StartsAt(s, d, i)

\* str.find, 1-based; 0 when d does not occur in s
Find(s, d) ==
    IF Contains(s, d)
    THEN CHOOSE i \in 1..(Len(s) + 1) :
            /\ StartsAt(s, d, i)
            /\ \A j \in 1..(i - 1) : ~StartsAt(s, d, j)
    ELSE 0

\* s[:n]
Take(s, n) == SubSeq(s, 1, IF n < Len(s) THEN n ELSE Len(s))

\* s[n:]  (n characters dropped)
Drop(s, n) == SubSeq(s, n + 1, Len(s))

\* str.split(d) for a non-empty separator d
RECURSIVE Split(_, _)
Split(s, d) ==
    LET i == Find(s, d)
    IN  IF i = 0
        THEN <<s>>
        ELSE <<SubSeq(s, 1, i - 1)>> \o Split(Drop(s, i + Len(d) - 1), d)

IsSpace(c) == c \in {" ", "\n", "\t"}

RECURSIVE LStrip(_)
LStrip(s) == IF s # <<>> /\ IsSpace(s[1]) THEN LStrip(Tail(s)) ELSE s

RECURSIVE RStrip(_)
RStrip(s) ==
    IF s # <<>> /\ IsSpace(s[Len(s)]) THEN RStrip(SubSeq(s, 1, Len(s) - 1)) ELSE s

\* str.strip()
Strip(s) == RStrip(LStrip(s))

Digit(n) == <<"0", "1", "2", "3", "4", "5", "6", "7", "8", "9">>[n + 1]

\* the decimal rendering of a natural number, as an f-string writes it
RECURSIVE ToStr(_)
ToStr(n) == IF n < 10 THEN <<Digit(n)>> ELSE ToStr(n \div 10) \o <<Digit(n % 10)>>

(***************************************************************************)
(* extract_text_from_pdf_bytes                                             *)
(*                                                                         *)
(* PDF bytes are modelled by what PyPDF2 makes of them:                    *)
(*   [empty  |-> whether there are no bytes (None or b""),                 *)
(*    parses |-> whether PdfReader accepts the bytes,                      *)
(*    pages  |-> <<[ok |-> whether page.extract_text() returns,            *)
(*                  text |-> the text it returns]>>]                       *)
(***************************************************************************)

\* f"\n--- Page {n} ---\n"
PageMarker(n) ==
    <<"\n", "-", "-", "-", " ", "P", "a", "g", "e", " ">> \o ToStr(n)
        \o <<" ", "-", "-", "-", "\n">>

\* the for loop of extract_text_from_pdf_bytes from page i on; an exception
\* raised by extract_text() leaves the try block, and text is returned as
\* built so far
RECURSIVE ExtractLoop(_, _, _)
ExtractLoop(pages, i, text) ==
    IF i > Len(pages)
    THEN text
    ELSE IF ~pages[i].ok
         THEN text
         ELSE ExtractLoop(pages, i + 1, text \o PageMarker(i) \o pages[i].text)

extract_text_from_pdf_bytes(pdf) ==
    IF ~pdf.parses THEN <<>> ELSE ExtractLoop(pdf.pages, 1, <<>>)

(***************************************************************************)
(* search_pdfs                                                             *)
(* A corpus (the dict pdf_content) is a sequence of [name, text] with      *)
(* distinct names, in insertion order.                                     *)
(***************************************************************************)

\* '--- Page'
PageDelim == <<"-", "-", "-", " ", "P", "a", "g", "e">>

\* '---'
Dashes == <<"-", "-", "-">>

Unknown == <<"U", "n", "k", "n", "o", "w", "n">>

\* page[:1000]
ExcerptLen == 1000

\* page.split('---')[0].strip() if '---' in page else "Unknown"
PageLabel(page) ==
    IF Contains(page, Dashes) THEN Strip(Split(page, Dashes)[1]) ELSE Unknown

\* the test of the inner loop
PageMatches(query_lower, page) == Contains(Lower(page), query_lower)

\* the inner loop over content.split('--- Page'), from piece i on
RECURSIVE SearchPages(_, _, _, _, _)
SearchPages(query_lower, filename, pages, i, results) ==
    IF i > Len(pages)
    THEN results
    ELSE SearchPages(query_lower, filename, pages, i + 1,
            IF PageMatches(query_lower, pages[i])
            THEN Append(results, [filename |-> filename,
                                  page |-> PageLabel(pages[i]),
                                  content |-> Take(pages[i], ExcerptLen)])
            ELSE results)

\* the outer loop over pdf_content.items(), from entry d on
RECURSIVE SearchDocs(_, _, _, _)
SearchDocs(query_lower, pdf_content, d, results) ==
    IF d > Len(pdf_content)
    THEN results
    ELSE SearchDocs(query_lower, pdf_content, d + 1,
            SearchPages(query_lower, pdf_content[d].name,
                        Split(pdf_content[d].text, PageDelim), 1, results))

search_pdfs(query, pdf_content) == SearchDocs(Lower(query), pdf_content, 1, <<>>)

(***************************************************************************)
(* The JSON files of the data folder                                       *)
(*                                                                         *)
(* A file is [exists, data]; data is the text written so far, as a         *)
(* sequence of tokens [tok, val]: the opening bracket, one token per       *)
(* entry, the closing bracket.                                             *)
(***************************************************************************)

NoFile == [exists |-> FALSE, data |-> <<>>]

Tok(t) == [tok |-> t, val |-> <<>>]

\* the text json.dump(content, f) writes for the dict pdf_content
JsonDumpDict(content) ==
    <<Tok("{")>> \o [i \in 1..Len(content) |-> [tok |-> "entry", val |-> content[i]]]
        \o <<Tok("}")>>

\* the text json.dump(links, f) writes for the list links
JsonDumpList(links) ==
    <<Tok("[")>> \o [i \in 1..Len(links) |-> [tok |-> "entry", val |-> links[i]]]
        \o <<Tok("]")>>

\* whether json.load accepts the text as a whole document opened by `open`
\* and closed by `close`
JsonParses(data, open, close) ==
    /\ Len(data) >= 2
    /\ data[1].tok = open
    /\ data[Len(data)].tok = close
    /\ \A i \in 2..(Len(data) - 1) : data[i].tok = "entry"

\* the value json.load returns for a text that parses
JsonValue(data) == [i \in 1..(Len(data) - 2) |-> data[i + 1].val]

\* load_pdf_content: {} when the file is missing or json.load raises
load_pdf_content(file) ==
    IF file.exists /\ JsonParses(file.data, "{", "}") THEN JsonValue(file.data) ELSE <<>>

\* load_pdf_links: [] when the file is missing or json.load raises
load_pdf_links(file) ==
    IF file.exists /\ JsonParses(file.data, "[", "]") THEN JsonValue(file.data) ELSE <<>>

(***************************************************************************)
(* Bounds and input pools                                                  *)
(***************************************************************************)

\* documents in a corpus drawn for a question
MaxDocs == 2

\* events the LLM stream delivers before it ends or fails
MaxEvents == 2

\* links in a saved link list
MaxLinks == 2

Page(t) == [ok |-> TRUE, text |-> t]

BadPage == [ok |-> FALSE, text |-> <<>>]

TFev == <<"F", "e", "v">>

TP1 == <<"p", "1">>

\* a page whose own text holds the delimiter: "--- Pageb---"
TMark == <<"-", "-", "-", " ", "P", "a", "g", "e", "b", "-", "-", "-">>

Pdf(pages) == [empty |-> FALSE, parses |-> TRUE, pages |-> pages]

PdfA == Pdf(<<Page(TFev), Page(TP1)>>)

\* extract_text() raises on page 2 of 3
PdfB == Pdf(<<Page(TP1), BadPage, Page(TFev)>>)

PdfC == Pdf(<<Page(TFev), Page(<<>>), Page(TFev)>>)

PdfM == Pdf(<<Page(TMark)>>)

\* bytes PdfReader rejects
PdfCorrupt == [empty |-> FALSE, parses |-> FALSE, pages |-> <<>>]

\* None, as download_pdf_from_drive returns it
NoBytes == [empty |-> TRUE, parses |-> FALSE, pages |-> <<>>]

DocNames == {"doc1", "doc2", "doc3"}

\* sequences over S of length at most n
SeqUpTo(S, n) == UNION {[1..k -> S] : k \in 0..n}

\* the documents a corpus can have been ingested from: distinct names, PDFs
\* every page of which extracts
Libraries ==
    {lib \in SeqUpTo([name : DocNames, pdf : {PdfA, PdfC, PdfM}], MaxDocs) :
        \A i, j \in 1..Len(lib) : i # j => lib[i].name # lib[j].name}

\* the corpus a digest run builds from a library
CorpusOf(lib) ==
    [i \in 1..Len(lib) |->
        [name |-> lib[i].name, text |-> extract_text_from_pdf_bytes(lib[i].pdf)]]

Questions ==
    {<<>>, <<"F", "E", "V">>, <<"1">>, <<"-", "-", "-">>, <<"b">>, <<"z">>}

Histories == {<<>>, <<[role |-> "user", content |-> "hi"]>>}

\* what iterating the LLM response yields: a text delta, a delta without
\* text, an event without delta
LLMEvents ==
    { [delta |-> TRUE, text |-> TRUE, value |-> "a"],
      [delta |-> TRUE, text |-> TRUE, value |-> "b"],
      [delta |-> TRUE, text |-> FALSE, value |-> ""],
      [delta |-> FALSE, text |-> FALSE, value |-> ""] }

LLMErrors == {"auth", "network"}

(***************************************************************************)
(* State                                                                   *)
(***************************************************************************)
VARIABLES
    apiKey,            \* whether ANTHROPIC_API_KEY is non-empty
    contentFile,       \* data/pdf_content.json
    ingested,          \* the documents contentFile was digested from
    a_pc,              \* /ask: "idle", "returned" (an error response), "stream"
    question,          \* data.get('question', '')
    pdf_content,       \* ask_question's pdf_content
    relevant_content,  \* ask_question's relevant_content
    context,           \* the entries of ask_question's context block
    messages,          \* the messages handed to generate()
    response,          \* what ask_question returned
    gen,               \* generate(): "notstarted", "streaming", "finished"
    llmCalls,          \* calls of client.messages.create
    llmOut,            \* the events the LLM stream has delivered
    events,            \* the events generate() has yielded
    session,           \* per client session: session.get('admin')
    linksFile,         \* data/pdf_links.json
    lastReq,           \* the last /admin request handled and its response
    d_pc,              \* /admin/digest: "idle", "loop", "write"
    links,             \* digest_pdfs' links
    d_i,               \* the link the for loop is at (1-based)
    d_run,             \* digest_pdfs' pdf_content, processed, errors, last text
    d_resp,            \* what digest_pdfs returned
    observed,          \* what a concurrent load_pdf_content() returned
    stored             \* the corpora the store has been given as a whole

askVars == <<a_pc, question, pdf_content, relevant_content, context, messages,
             response, gen, llmCalls, llmOut, events>>

adminVars == <<session, linksFile, lastReq>>

digestVars == <<d_pc, links, d_i, d_run, d_resp>>

readerVars == <<observed, stored>>

vars == <<apiKey, contentFile, ingested, askVars, adminVars, digestVars, readerVars>>

(***************************************************************************)
(* /admin: login, link list, digest, status                                *)
(***************************************************************************)

Sessions == {"s1", "s2"}

\* ADMIN_PASSWORD (the default of the environment lookup)
ADMIN_PASSWORD == "changeme123"

\* data.get('password'): "" stands for a missing password
Passwords == {ADMIN_PASSWORD, "letmein", ""}

IsIdChar(c) == c \in {"a", "b", "c", "d", "e", "i", "x", "0", "1", "-", "_"}

\* the length of the run of [a-zA-Z0-9-_] characters of url from position i
RECURSIVE IdRun(_, _)
IdRun(url, i) == IF i <= Len(url) /\ IsIdChar(url[i]) THEN 1 + IdRun(url, i + 1) ELSE 0

\* re.search(prefix + '([a-zA-Z0-9-_]+)', url): where the leftmost match
\* starts, 0 for no match
SearchId(url, prefix) ==
    LET Hit(i) == StartsAt(url, prefix, i) /\ IdRun(url, i + Len(prefix)) > 0
    IN  IF \E i \in 1..Len(url) : Hit(i)
        THEN CHOOSE i \in 1..Len(url) : Hit(i) /\ \A j \in 1..(i - 1) : ~Hit(j)
        ELSE 0

\* match.group(1)
GroupAt(url, prefix, i) ==
    SubSeq(url, i + Len(prefix), i + Len(prefix) + IdRun(url, i + Len(prefix)) - 1)

\* extract_file_id_from_url; <<>> stands for None
extract_file_id_from_url(url) ==
    LET p1 == <<"/", "d", "/">>
        p2 == <<"i", "d", "=">>
        p3 == <<"/", "f", "i", "l", "e", "/", "d", "/">>
    IN  IF SearchId(url, p1) > 0 THEN GroupAt(url, p1, SearchId(url, p1))
        ELSE IF SearchId(url, p2) > 0 THEN GroupAt(url, p2, SearchId(url, p2))
        ELSE IF SearchId(url, p3) > 0 THEN GroupAt(url, p3, SearchId(url, p3))
        ELSE <<>>

\* what requests.get answers for a file id
Drive(file_id) ==
    CASE file_id = <<"a">> -> [raises |-> FALSE, status |-> 200, content |-> PdfA]
      [] file_id = <<"b">> -> [raises |-> FALSE, status |-> 200, content |-> PdfB]
      [] file_id = <<"d">> -> [raises |-> FALSE, status |-> 200, content |-> PdfCorrupt]
      [] file_id = <<"e">> -> [raises |-> TRUE, status |-> 0, content |-> NoBytes]
      [] OTHER -> [raises |-> FALSE, status |-> 404, content |-> NoBytes]

\* download_pdf_from_drive: the bytes, or None
download_pdf_from_drive(file_id) ==
    LET r == Drive(file_id)
    IN  IF r.raises THEN NoBytes
        ELSE IF r.status = 200 THEN r.content
        ELSE NoBytes

\* a saved link object: url, name, and whether name is a JSON string (a
\* list or object as name cannot be a dict key)
Link(url, name, isStr) == [url |-> url, name |-> name, nameIsStr |-> isStr]

LinkPool ==
    { Link(<<"x">>, "n0", TRUE),
      Link(<<"/", "d", "/", "a">>, "docA", TRUE),
      Link(<<"?", "i", "d", "=", "b">>, "docB", TRUE),
      Link(<<"/", "d", "/", "c">>, "docC", TRUE),
      Link(<<"/", "d", "/", "d", "?", "x">>, "docD", TRUE),
      Link(<<"/", "d", "/", "e">>, "docE", TRUE),
      Link(<<"/", "d", "/", "a">>, "docL", FALSE) }

LinkLists == SeqUpTo(LinkPool, MaxLinks)

\* pdf_content[name] = text on the dict kept as a sequence of entries
DictSet(content, name, text) ==
    IF \E i \in 1..Len(content) : content[i].name = name
    THEN [i \in 1..Len(content) |->
            IF content[i].name = name THEN [name |-> name, text |-> text] ELSE content[i]]
    ELSE Append(content, [name |-> name, text |-> text])

Err(kind, name) == [kind |-> kind, name |-> name]

\* digest_pdfs' locals before the loop
RunStart == [pdf_content |-> <<>>, processed |-> 0, errors |-> <<>>,
             pdf_bytes |-> NoBytes, text |-> <<>>]

\* ProcessLink with the `continue` of an invalid URL reporting nothing
ProcessLinkSilentSkip(run, link_obj) ==
    LET file_id == extract_file_id_from_url(link_obj.url)
        pdf_bytes == download_pdf_from_drive(file_id)
        text == extract_text_from_pdf_bytes(pdf_bytes)
    IN  IF file_id = <<>>
        THEN run
        ELSE IF pdf_bytes.empty
        THEN [run EXCEPT !.errors = Append(@, Err("download", link_obj.name)),
                         !.pdf_bytes = pdf_bytes]
        ELSE IF text = <<>>
        THEN [run EXCEPT !.errors = Append(@, Err("extract", link_obj.name)),
                         !.pdf_bytes = pdf_bytes, !.text = text]
        ELSE IF ~link_obj.nameIsStr
        THEN [run EXCEPT !.errors = Append(@, Err("exception", link_obj.name)),
                         !.pdf_bytes = pdf_bytes, !.text = text]
        ELSE [run EXCEPT !.pdf_content = DictSet(@, link_obj.name, text),
                         !.processed = @ + 1,
                         !.pdf_bytes = pdf_bytes, !.text = text]

\* one iteration of the for loop of digest_pdfs
ProcessLink(run, link_obj) ==
    LET file_id == extract_file_id_from_url(link_obj.url)
        pdf_bytes == download_pdf_from_drive(file_id)
        text == extract_text_from_pdf_bytes(pdf_bytes)
    IN  IF file_id = <<>>
        THEN [run EXCEPT !.errors = Append(@, Err("invalid_url", link_obj.name))]
        ELSE IF pdf_bytes.empty
        THEN [run EXCEPT !.errors = Append(@, Err("download", link_obj.name)),
                         !.pdf_bytes = pdf_bytes]
        ELSE IF text = <<>>
        THEN [run EXCEPT !.errors = Append(@, Err("extract", link_obj.name)),
                         !.pdf_bytes = pdf_bytes, !.text = text]
        ELSE IF ~link_obj.nameIsStr
        THEN [run EXCEPT !.errors = Append(@, Err("exception", link_obj.name)),
                         !.pdf_bytes = pdf_bytes, !.text = text]
        ELSE [run EXCEPT !.pdf_content = DictSet(@, link_obj.name, text),
                         !.processed = @ + 1,
                         !.pdf_bytes = pdf_bytes, !.text = text]

\* the whole for loop, from link i on
RECURSIVE DigestLoop(_, _, _)
DigestLoop(lks, i, run) ==
    IF i > Len(lks) THEN run ELSE DigestLoop(lks, i + 1, ProcessLink(run, lks[i]))

NoBody == <<"no body">>

\* the value of a local not assigned yet
NotRun == <<[unset |-> TRUE]>>

Req(op, s, pw, status, body) ==
    [op |-> op, s |-> s, pw |-> pw, status |-> status, body |-> body]

NoReq == Req("none", "", "", 0, NoBody)

NoDigestResp == [status |-> 0, success |-> FALSE, processed |-> 0, total |-> 0,
                 errors |-> <<>>]

DigestError(code) == [status |-> code, success |-> FALSE, processed |-> 0,
                      total |-> 0, errors |-> <<>>]

DigestSuccess(run, lks) ==
    [status |-> 200, success |-> TRUE, processed |-> run.processed,
     total |-> Len(lks), errors |-> run.errors]

\* Authorized with the session check left out
AuthorizedAlways(s) == TRUE

\* session.get('admin')
Authorized(s) == session[s]

AdminIdle ==
    /\ lastReq = NoReq
    /\ d_pc = "idle"
    /\ links = <<>>
    /\ d_i = 0
    /\ d_run = RunStart
    /\ d_resp = NoDigestResp
    /\ observed = NotRun

\* admin_login
AdminLogin ==
    \E s \in Sessions, pw \in Passwords :
        /\ IF pw = ADMIN_PASSWORD
           THEN /\ session' = [session EXCEPT ![s] = TRUE]
                /\ lastReq' = Req("login", s, pw, 200, NoBody)
           ELSE /\ session' = session
                /\ lastReq' = Req("login", s, pw, 401, NoBody)
        /\ UNCHANGED <<linksFile, apiKey, contentFile, ingested, askVars, digestVars,
                       readerVars>>

\* save_links
SaveLinks(s, lks) ==
    /\ IF ~Authorized(s)
       THEN /\ lastReq' = Req("save_links", s, "", 401, NoBody)
            /\ linksFile' = linksFile
       ELSE /\ linksFile' = [exists |-> TRUE, data |-> JsonDumpList(lks)]
            /\ lastReq' = Req("save_links", s, "", 200, <<"count", Len(lks)>>)
    /\ UNCHANGED <<session, apiKey, contentFile, ingested, askVars, digestVars,
                   readerVars>>

\* get_links
GetLinks(s) ==
    /\ IF ~Authorized(s)
       THEN lastReq' = Req("get_links", s, "", 401, NoBody)
       ELSE lastReq' = Req("get_links", s, "", 200,
                           <<"links", load_pdf_links(linksFile)>>)
    /\ UNCHANGED <<session, linksFile, apiKey, contentFile, ingested, askVars,
                   digestVars, readerVars>>

\* get_status
GetStatus(s) ==
    /\ IF ~Authorized(s)
       THEN lastReq' = Req("status", s, "", 401, NoBody)
       ELSE LET content == load_pdf_content(contentFile)
            IN  lastReq' = Req("status", s, "", 200,
                               <<"files", [i \in 1..Len(content) |-> content[i].name]>>)
    /\ UNCHANGED <<session, linksFile, apiKey, contentFile, ingested, askVars,
                   digestVars, readerVars>>

\* digest_pdfs as one request, its file write included
Digest(s) ==
    /\ IF ~Authorized(s)
       THEN /\ lastReq' = Req("digest", s, "", 401, NoBody)
            /\ UNCHANGED <<contentFile, stored>>
       ELSE LET lks == load_pdf_links(linksFile)
                run == DigestLoop(lks, 1, RunStart)
            IN  IF lks = <<>>
                THEN /\ lastReq' = Req("digest", s, "", 400, NoBody)
                     /\ UNCHANGED <<contentFile, stored>>
                ELSE /\ contentFile' =
                            [exists |-> TRUE, data |-> JsonDumpDict(run.pdf_content)]
                     /\ stored' = stored \cup {run.pdf_content}
                     /\ lastReq' = Req("digest", s, "", 200,
                                       <<"digest", DigestSuccess(run, lks)>>)
    /\ UNCHANGED <<session, linksFile, apiKey, ingested, askVars, digestVars,
                   observed>>

\* the link lists the admin client saves
AdminLinkLists ==
    SeqUpTo({Link(<<"x">>, "n0", TRUE), Link(<<"/", "d", "/", "a">>, "docA", TRUE)},
            MaxLinks)

AuthInit ==
    /\ apiKey = TRUE
    /\ contentFile = NoFile
    /\ ingested = <<>>
    /\ a_pc = "idle"
    /\ question = <<>>
    /\ pdf_content = NotRun
    /\ relevant_content = NotRun
    /\ context = NotRun
    /\ messages = NotRun
    /\ response = [status |-> 0, error |-> "", stream |-> FALSE]
    /\ gen = "notstarted"
    /\ llmCalls = 0
    /\ llmOut = <<>>
    /\ events = <<>>
    /\ AdminIdle
    /\ session = [s \in Sessions |-> FALSE]
    /\ linksFile = NoFile
    /\ stored = {<<>>}

AuthSaveLinks == \E s \in Sessions, lks \in AdminLinkLists : SaveLinks(s, lks)

AuthGetLinks == \E s \in Sessions : GetLinks(s)

AuthGetStatus == \E s \in Sessions : GetStatus(s)

AuthDigest == \E s \in Sessions : Digest(s)

AuthNext == AdminLogin \/ AuthSaveLinks \/ AuthGetLinks \/ AuthGetStatus \/ AuthDigest

SpecAuth == AuthInit /\ [][AuthNext]_vars

(***************************************************************************)
(* /admin/digest step by step, next to a concurrent corpus read            *)
(***************************************************************************)

\* digest_pdfs up to the start of its loop
DigestBegin ==
    \E s \in Sessions :
        /\ d_pc = "idle"
        /\ IF ~Authorized(s)
           THEN /\ d_resp' = DigestError(401)
                /\ UNCHANGED <<d_pc, links, d_i, d_run>>
           ELSE /\ links' = load_pdf_links(linksFile)
                /\ IF links' = <<>>
                   THEN /\ d_resp' = DigestError(400)
                        /\ UNCHANGED <<d_pc, d_i, d_run>>
                   ELSE /\ d_pc' = "loop"
                        /\ d_i' = 1
                        /\ d_run' = RunStart
                        /\ d_resp' = NoDigestResp
        /\ UNCHANGED <<apiKey, contentFile, ingested, askVars, adminVars, readerVars>>

\* one iteration of `for link_obj in links`
DigestLink ==
    /\ d_pc = "loop"
    /\ d_i <= Len(links)
    /\ d_run' = ProcessLink(d_run, links[d_i])
    /\ d_i' = d_i + 1
    /\ UNCHANGED <<d_pc, links, d_resp, apiKey, contentFile, ingested, askVars,
                   adminVars, readerVars>>

\* save_pdf_content: open(PDF_CONTENT_FILE, 'w') truncates the file
DigestOpen ==
    /\ d_pc = "loop"
    /\ d_i > Len(links)
    /\ contentFile' = [exists |-> TRUE, data |-> <<>>]
    /\ stored' = stored \cup {d_run.pdf_content}
    /\ d_pc' = "write"
    /\ UNCHANGED <<links, d_i, d_run, d_resp, apiKey, ingested, askVars, adminVars,
                   observed>>

\* save_pdf_content: json.dump writes the next piece of the text
DigestWrite ==
    /\ d_pc = "write"
    /\ Len(contentFile.data) < Len(JsonDumpDict(d_run.pdf_content))
    /\ contentFile' = [contentFile EXCEPT
            !.data = Append(@, JsonDumpDict(d_run.pdf_content)[Len(@) + 1])]
    /\ UNCHANGED <<apiKey, ingested, askVars, adminVars, digestVars, readerVars>>

\* save_pdf_content returns and digest_pdfs answers
DigestClose ==
    /\ d_pc = "write"
    /\ Len(contentFile.data) = Len(JsonDumpDict(d_run.pdf_content))
    /\ d_resp' = DigestSuccess(d_run, links)
    /\ d_pc' = "idle"
    /\ UNCHANGED <<links, d_i, d_run, apiKey, contentFile, ingested, askVars,
                   adminVars, readerVars>>

\* a concurrent request (ask_question, get_status) calls load_pdf_content
ReaderLoad ==
    /\ observed' = load_pdf_content(contentFile)
    /\ UNCHANGED <<stored, apiKey, contentFile, ingested, askVars, adminVars,
                   digestVars>>

\* the corpus on disk before the run
OldCorpus == CorpusOf(<<[name |-> "old", pdf |-> PdfC]>>)

IngestInit ==
    /\ apiKey = TRUE
    /\ contentFile \in {NoFile, [exists |-> TRUE, data |-> JsonDumpDict(OldCorpus)]}
    /\ ingested = <<>>
    /\ a_pc = "idle"
    /\ question = <<>>
    /\ pdf_content = NotRun
    /\ relevant_content = NotRun
    /\ context = NotRun
    /\ messages = NotRun
    /\ response = [status |-> 0, error |-> "", stream |-> FALSE]
    /\ gen = "notstarted"
    /\ llmCalls = 0
    /\ llmOut = <<>>
    /\ events = <<>>
    /\ AdminIdle
    /\ session \in [Sessions -> BOOLEAN]
    /\ linksFile \in {NoFile} \cup
            {[exists |-> TRUE, data |-> JsonDumpList(lks)] : lks \in LinkLists}
    /\ stored = {load_pdf_content(contentFile)}

IngestNext ==
    \/ DigestBegin
    \/ DigestLink
    \/ DigestOpen
    \/ DigestWrite
    \/ DigestClose
    \/ ReaderLoad

SpecIngest == IngestInit /\ [][IngestNext]_vars

(***************************************************************************)
(* Properties of ingestion and of the admin endpoints                      *)
(***************************************************************************)

\* C4: whatever a concurrent load_pdf_content() returns is a corpus the
\* store was given as a whole: the corpus on disk before the digest run
\* (the old one) or the corpus the run saves (the new one).
C4_ReaderSeesOldOrNewCorpus == observed = NotRun \/ observed \in stored

\* marker and text of every page from page i on, a page whose extraction
\* failed contributing an empty text
RECURSIVE AllPagesMarked(_, _)
AllPagesMarked(pages, i) ==
    IF i > Len(pages)
    THEN <<>>
    ELSE PageMarker(i) \o (IF pages[i].ok THEN pages[i].text ELSE <<>>)
            \o AllPagesMarked(pages, i + 1)

\* C6: the text extracted from a document that parses holds the markers of
\* all its pages 1..n in order, a page whose extraction fails contributing
\* its marker with an empty text and the pages after it their texts.
C6_EveryPageMarked ==
    d_run.pdf_bytes.parses => d_run.text = AllPagesMarked(d_run.pdf_bytes.pages, 1)

AdminOps == {"save_links", "get_links", "digest", "status"}

\* C10: a request changes the link list or the corpus, or answers with the
\* link list or the corpus status, only if its session's admin flag was set;
\* the flag of a session is set only by a login of that session with the
\* admin password, and a login with another password changes no flag and is
\* answered 401; an admin request of a session without the flag is answered
\* 401 with no body and changes neither file.
C10_AdminOnly ==
    [][ /\ (linksFile' # linksFile \/ contentFile' # contentFile
            \/ lastReq'.body # NoBody) => session[lastReq'.s]
        /\ \A s \in Sessions :
             session'[s] # session[s] =>
                /\ session'[s]
                /\ lastReq' = Req("login", s, ADMIN_PASSWORD, 200, NoBody)
        /\ (lastReq'.op = "login" /\ lastReq'.pw # ADMIN_PASSWORD) =>
                /\ session' = session
                /\ lastReq'.status = 401
        /\ (lastReq'.op \in AdminOps /\ ~session[lastReq'.s]) =>
                /\ lastReq'.status = 401
                /\ lastReq'.body = NoBody
                /\ linksFile' = linksFile
                /\ contentFile' = contentFile
      ]_vars

\* a session without the flag is refused after another session has saved
\* links and digested them
C10_Witness ==
    /\ lastReq.op \in AdminOps
    /\ lastReq.status = 401
    /\ \E s \in Sessions : session[s]
    /\ linksFile.exists
    /\ load_pdf_content(contentFile) # <<>>

(***************************************************************************)
(* /ask                                                                    *)
(***************************************************************************)

\* relevant_content[:5]
TopK == 5

\* result['content'][:500]
ContextLen == 500

NoResponse == [status |-> 0, error |-> "", stream |-> FALSE]

ErrorResponse(code, msg) == [status |-> code, error |-> msg, stream |-> FALSE]

StreamResponse == [status |-> 200, error |-> "", stream |-> TRUE]

\* one "[Source i: filename, Page p]\ncontent[:500]...\n\n" entry
ContextEntry(idx, result) ==
    [source |-> idx + 1, filename |-> result.filename, page |-> result.page,
     content |-> Take(result.content, ContextLen)]

\* BuildContext with the slice taken from the wrong end
BuildContextLast(results) ==
    LET top == Drop(results, IF Len(results) > TopK THEN Len(results) - TopK ELSE 0)
    IN  [i \in 1..Len(top) |-> ContextEntry(i - 1, top[i])]

\* the loop `for idx, result in enumerate(relevant_content[:5])`
BuildContext(results) ==
    LET top == Take(results, TopK)
    IN  [i \in 1..Len(top) |-> ContextEntry(i - 1, top[i])]

\* history turns, then the user turn carrying the context and the question
BuildMessages(hist, ctx, q) ==
    [i \in 1..Len(hist) |-> [role |-> hist[i].role, content |-> hist[i].content]]
        \o <<[role |-> "user", content |-> [context |-> ctx, question |-> q]]>>

\* IsEmptyCorpus with the check left out
IsEmptyCorpusNever(content) == FALSE

\* `not pdf_content`
IsEmptyCorpus(content) == content = <<>>

\* ask_question up to its return
AskQuestion(q, hist) ==
    /\ a_pc = "idle"
    /\ question' = q
    /\ IF q = <<>>
       THEN /\ response' = ErrorResponse(400, "No question provided")
            /\ a_pc' = "returned"
            /\ UNCHANGED <<pdf_content, relevant_content, context, messages>>
       ELSE IF ~apiKey
       THEN /\ response' = ErrorResponse(500, "API key not configured")
            /\ a_pc' = "returned"
            /\ UNCHANGED <<pdf_content, relevant_content, context, messages>>
       ELSE /\ pdf_content' = load_pdf_content(contentFile)
            /\ IF IsEmptyCorpus(pdf_content')
               THEN /\ response' = ErrorResponse(400, "No PDFs processed yet")
                    /\ a_pc' = "returned"
                    /\ UNCHANGED <<relevant_content, context, messages>>
               ELSE /\ relevant_content' = search_pdfs(q, pdf_content')
                    /\ context' = BuildContext(relevant_content')
                    /\ messages' = BuildMessages(hist, context', q)
                    /\ response' = StreamResponse
                    /\ a_pc' = "stream"
    /\ UNCHANGED <<gen, llmCalls, llmOut, events, apiKey, contentFile, ingested,
                   adminVars, digestVars, readerVars>>

Ask == \E q \in Questions, hist \in Histories : AskQuestion(q, hist)

TextEvent(t) == [type |-> "text", value |-> t]

DoneEvent == [type |-> "done", value |-> "true"]

ErrorEvent(msg) == [type |-> "error", value |-> msg]

\* hasattr(event, 'delta') and hasattr(event.delta, 'text')
HasDeltaText(e) == e.delta /\ e.text

\* OnEvent with the newest fragment put first
OnEventFirst(out, e) == IF HasDeltaText(e) THEN <<TextEvent(e.value)>> \o out ELSE out

\* the body of `for event in response`
OnEvent(out, e) == IF HasDeltaText(e) THEN Append(out, TextEvent(e.value)) ELSE out

\* OnEnd without the final yield
OnEndSilent(out) == out

\* the yield after the loop
OnEnd(out) == Append(out, DoneEvent)

\* the except clause
OnException(out, msg) == Append(out, ErrorEvent(msg))

\* client.messages.create(..., stream=True) returns the stream
GenCreate ==
    /\ a_pc = "stream" /\ gen = "notstarted"
    /\ gen' = "streaming"
    /\ llmCalls' = llmCalls + 1
    /\ UNCHANGED <<a_pc, question, pdf_content, relevant_content, context, messages,
                   response, llmOut, events, apiKey, contentFile, ingested,
                   adminVars, digestVars, readerVars>>

\* client.messages.create raises
GenCreateFails ==
    /\ a_pc = "stream" /\ gen = "notstarted"
    /\ \E msg \in LLMErrors : events' = OnException(events, msg)
    /\ gen' = "finished"
    /\ llmCalls' = llmCalls + 1
    /\ UNCHANGED <<a_pc, question, pdf_content, relevant_content, context, messages,
                   response, llmOut, apiKey, contentFile, ingested,
                   adminVars, digestVars, readerVars>>

\* the stream delivers one more event
GenEvent ==
    /\ gen = "streaming"
    /\ Len(llmOut) < MaxEvents
    /\ \E e \in LLMEvents :
        /\ llmOut' = Append(llmOut, e)
        /\ events' = OnEvent(events, e)
    /\ UNCHANGED <<a_pc, question, pdf_content, relevant_content, context, messages,
                   response, gen, llmCalls, apiKey, contentFile, ingested,
                   adminVars, digestVars, readerVars>>

\* the stream raises while being iterated
GenRaise ==
    /\ gen = "streaming"
    /\ \E msg \in LLMErrors : events' = OnException(events, msg)
    /\ gen' = "finished"
    /\ UNCHANGED <<a_pc, question, pdf_content, relevant_content, context, messages,
                   response, llmCalls, llmOut, apiKey, contentFile, ingested,
                   adminVars, digestVars, readerVars>>

\* the stream ends
GenEnd ==
    /\ gen = "streaming"
    /\ events' = OnEnd(events)
    /\ gen' = "finished"
    /\ UNCHANGED <<a_pc, question, pdf_content, relevant_content, context, messages,
                   response, llmCalls, llmOut, apiKey, contentFile, ingested,
                   adminVars, digestVars, readerVars>>

AskInit ==
    /\ apiKey \in BOOLEAN
    /\ ingested \in Libraries
    /\ contentFile \in {NoFile, [exists |-> TRUE, data |-> JsonDumpDict(CorpusOf(ingested))]}
    /\ (contentFile = NoFile => ingested = <<>>)
    /\ a_pc = "idle"
    /\ question = <<>>
    /\ pdf_content = NotRun
    /\ relevant_content = NotRun
    /\ context = NotRun
    /\ messages = NotRun
    /\ response = NoResponse
    /\ gen = "notstarted"
    /\ llmCalls = 0
    /\ llmOut = <<>>
    /\ events = <<>>
    /\ AdminIdle
    /\ session = [s \in Sessions |-> FALSE]
    /\ linksFile = NoFile
    /\ stored = {load_pdf_content(contentFile)}

AskNext == Ask \/ GenCreate \/ GenCreateFails \/ GenEvent \/ GenRaise \/ GenEnd

SpecAsk == AskInit /\ [][AskNext]_vars

(***************************************************************************)
(* Properties of /ask                                                      *)
(***************************************************************************)

IsTerminal(e) == e.type \in {"done", "error"}

TerminalCount(out) == Cardinality({i \in DOMAIN out : IsTerminal(out[i])})

\* C1: once generate() has finished, whether the LLM call succeeded, failed
\* at setup or failed mid-stream, the events it yielded hold exactly one
\* terminal event (done or error) and that event is the last one; before it
\* has finished no terminal event has been yielded.
C1_OneTerminalEventLast ==
    /\ gen = "finished" =>
          /\ TerminalCount(events) = 1
          /\ IsTerminal(events[Len(events)])
    /\ gen # "finished" => TerminalCount(events) = 0

\* a successful stream: a text event, then done
C1_Witness ==
    /\ gen = "finished"
    /\ Len(llmOut) = 2
    /\ Len(events) = 2
    /\ events[1].type = "text"
    /\ events[2].type = "done"

\* what the claim calls a text fragment received from the LLM
IsFragment(e) == e.delta /\ e.text

FragmentsOf(out) == SelectSeq(out, IsFragment)

\* C2: at every moment the text events yielded are the text fragments the
\* LLM has delivered so far, one event per fragment in arrival order, ahead
\* of any terminal event; a stream that fails after k fragments has yielded
\* exactly k text events, then one error event, and no done event.
C2_TextEventsAreFragmentsInOrder ==
    LET frags == FragmentsOf(llmOut)
        k == Len(frags)
    IN  /\ Len(events) >= k
        /\ \A i \in 1..k : events[i] = TextEvent(frags[i].value)
        /\ \A i \in (k + 1)..Len(events) : events[i].type # "text"
        /\ (gen = "finished" /\ events[Len(events)].type = "error") =>
              /\ Len(events) = k + 1
              /\ \A i \in 1..Len(events) : events[i].type # "done"

\* the stream fails after two fragments: text, text, error
C2_Witness ==
    /\ gen = "finished"
    /\ Len(FragmentsOf(llmOut)) = 2
    /\ llmOut[1].value # llmOut[2].value
    /\ Len(events) = 3
    /\ events[1].type = "text" /\ events[2].type = "text"
    /\ events[3].type = "error"

\* C3: when the corpus loaded for a request is empty, the request ends with
\* the "no PDFs processed" response, search_pdfs has not run, no context was
\* built, the LLM was not called and no event is ever yielded; and whatever
\* the request, an empty stored corpus means no search, no LLM call and no
\* event.
C3_EmptyCorpusHalts ==
    /\ (a_pc # "idle" /\ pdf_content = <<>>) =>
          /\ response = ErrorResponse(400, "No PDFs processed yet")
          /\ a_pc = "returned"
    /\ load_pdf_content(contentFile) = <<>> =>
          /\ relevant_content = NotRun
          /\ context = NotRun
          /\ messages = NotRun
          /\ gen = "notstarted"
          /\ llmCalls = 0
          /\ events = <<>>

\* a question was asked with the API key set and the stored corpus empty
C3_Witness ==
    /\ a_pc = "returned"
    /\ question # <<>>
    /\ contentFile.exists
    /\ pdf_content = <<>>

\* the page texts of the document ingested under a name
PagesOf(name) ==
    LET d == CHOOSE i \in 1..Len(ingested) : ingested[i].name = name
    IN  ingested[d].pdf.pages

\* C5: a page is returned as a hit if and only if the lower-cased query is a
\* substring of the page's own lower-cased text, and every hit is a page of
\* its document.
C5_HitIffPageTextContainsQuery ==
    a_pc = "stream" =>
        /\ \A d \in 1..Len(ingested) :
             \A n \in 1..Len(ingested[d].pdf.pages) :
                (\E k \in 1..Len(relevant_content) :
                    /\ relevant_content[k].filename = ingested[d].name
                    /\ relevant_content[k].page = ToStr(n))
                <=> Contains(Lower(ingested[d].pdf.pages[n].text), Lower(question))
        /\ \A k \in 1..Len(relevant_content) :
             \E n \in 1..Len(PagesOf(relevant_content[k].filename)) :
                relevant_content[k].page = ToStr(n)

RECURSIVE Candidates(_, _)
Candidates(content, d) ==
    IF d > Len(content)
    THEN <<>>
    ELSE LET pieces == Split(content[d].text, PageDelim)
         IN  [i \in 1..Len(pieces) |->
                [filename |-> content[d].name, page |-> PageLabel(pieces[i]),
                 content |-> pieces[i]]]
             \o Candidates(content, d + 1)

Min(a, b) == IF a < b THEN a ELSE b

\* C8: when ask_question returns its streaming response the hits are the
\* matching pieces in document then page order; from then on the context lists the first min(5, n) of the n hits in that order, entry i
\* labelled Source i, and a request with no hit still goes to the LLM with
\* an empty context.
C8_TraversalOrderAndTopFive ==
    a_pc = "stream" =>
        LET Matches(c) == Contains(Lower(c.content), Lower(question))
            n == Len(relevant_content)
        IN  /\ gen = "notstarted" =>
                 relevant_content = SelectSeq(Candidates(pdf_content, 1), Matches)
            /\ Len(context) = Min(5, n)
            /\ \A i \in 1..Len(context) :
                 /\ context[i].source = i
                 /\ context[i].filename = relevant_content[i].filename
                 /\ context[i].page = relevant_content[i].page
                 /\ context[i].content = relevant_content[i].content
            /\ messages[Len(messages)].content.context = context
            /\ response.stream

\* more than five hits over two documents
C8_Witness ==
    /\ a_pc = "stream"
    /\ Len(relevant_content) > 5
    /\ relevant_content[1].filename # relevant_content[Len(relevant_content)].filename
    /\ gen = "streaming"

====
